---- MODULE Spec2Model ----
(***************************************************************************)
(* Model of autogluon's debug log                                          *)
(*   core/searcher/bayesopt/autogluon/debug_log.py                         *)
(* ConfigCounter (the configuration identity registry) and DebugLogPrinter *)
(* (the block log aggregator).                                             *)
(*                                                                         *)
(* Python objects are modelled with reference semantics: a dict lives in   *)
(* `heap` and is named by its address, so that two holders of the same     *)
(* dict (a ConfigCounter and a state returned by get_mutable_state) see    *)
(* each other's writes, as they do in Python.                              *)
(***************************************************************************)
EXTENDS Integers, Sequences, FiniteSets, TLC

(***************************************************************************)
(* Bounds of the model                                                     *)
(***************************************************************************)
\* add_config is not called on a registry that already holds MaxEntries
\* configurations (an insert that fails is always allowed)
MaxEntries == 2
\* number of states returned by get_mutable_state that the caller keeps
MaxSnaps == 1

(***************************************************************************)
(* Values                                                                  *)
(***************************************************************************)
\* Python's None
None == "None"

\* the two ConfigCounter objects of the program
Regs == {"R1", "R2"}

\* the name under which the resource attribute is registered
\* (configspace_ext.resource_attr_name)
ResourceAttr == "resource"

\* the values the parameters x and y take, and the resource levels
ParamVals == {1, 2}
ResourceVals == {5, 9}

\* A configuration is a Python dict: an insertion-ordered mapping with
\* distinct names, modelled as a sequence of <<name, value>> entries.
\* The configurations the caller passes: one parameter, two parameters in
\* either insertion order, and one parameter extended by a resource level.
Configs ==
    {<<<<"x", v>>>> : v \in ParamVals}
    \cup {<<<<"y", 1>>>>}
    \cup {<<<<"x", 1>>, <<"y", 2>>>>, <<<<"y", 2>>, <<"x", 1>>>>}
    \cup {<<<<"x", 1>>, <<ResourceAttr, r>>>> : r \in ResourceVals}

\* Python's ordering of the parameter names as strings:
\* "resource" < "x" < "y"
NameRank(n) == CASE n = "resource" -> 1 [] n = "x" -> 2 [] n = "y" -> 3

HasName(config, n) == \E i \in 1..Len(config) : config[i][1] = n

\* An Optional[int] of Python: Nothing is None, Some(v) is the integer v
Nothing == <<>>
Some(v) == <<v>>

\* dict.get(n): the value stored under n, None when there is none
DictGet(config, n) ==
    IF HasName(config, n)
    THEN Some((CHOOSE e \in {config[i] : i \in 1..Len(config)} : e[1] = n)[2])
    ELSE Nothing

\* configspace_ext.remove_resource(config, as_dict=True): the configuration
\* without its resource entry, the other entries in their order
remove_resource(config, attr) == SelectSeq(config, LAMBDA e : e[1] # attr)

\* sorted(config_dict.items(), key=lambda x: x[0]): insertion sort by name
RECURSIVE InsertSorted(_, _)
InsertSorted(e, s) ==
    IF s = <<>> THEN <<e>>
    ELSE IF NameRank(e[1]) <= NameRank(Head(s)[1]) THEN <<e>> \o s
    ELSE <<Head(s)>> \o InsertSorted(e, Tail(s))

RECURSIVE SortedItems(_)
SortedItems(config) ==
    IF config = <<>> THEN <<>>
    ELSE InsertSorted(Head(config), SortedItems(Tail(config)))

\* str.join over the decimal renderings of a sequence of integers
RECURSIVE JoinInts(_, _)
JoinInts(vals, sep) ==
    IF vals = <<>> THEN ""
    ELSE IF Len(vals) = 1 THEN ToString(vals[1])
    ELSE ToString(vals[1]) \o sep \o JoinInts(Tail(vals), sep)

\* str(tuple) of Python: "()", "(1,)", "(1, 2)"
StrTuple(vals) ==
    IF Len(vals) = 1 THEN "(" \o ToString(vals[1]) \o ",)"
    ELSE "(" \o JoinInts(vals, ", ") \o ")"

(***************************************************************************)
(* _to_key                                                                 *)
(***************************************************************************)
\* _to_key keeping the resource entry in the key
to_key_keep_resource(config, ext) ==
    LET items == SortedItems(config)
        config_tpl == [i \in 1..Len(items) |-> items[i][2]]
    IN  [key |-> StrTuple(config_tpl),
         config_dict |-> config,
         resource |-> IF ext = None THEN Nothing ELSE DictGet(config, ext)]

\* The key of a configuration, its dict without the resource entry, and its
\* resource value. configspace_ext is None or the extended configuration
\* space, which the model identifies with its resource_attr_name.
to_key(config, ext) ==
    LET resource == IF ext = None THEN Nothing ELSE DictGet(config, ext)
        config_dict == IF resource # Nothing
                       THEN remove_resource(config, ext)
                       ELSE config
        items == SortedItems(config_dict)
        config_tpl == [i \in 1..Len(items) |-> items[i][2]]
    IN  [key |-> StrTuple(config_tpl),
         config_dict |-> config_dict,
         resource |-> resource]

(***************************************************************************)
(* State                                                                   *)
(***************************************************************************)
VARIABLES
    config_counter,     \* ConfigCounter.config_counter of each registry
    config_id_dict,     \* ConfigCounter._config_id: the address of its dict
    configspace_ext,    \* ConfigCounter.configspace_ext
    heap,               \* the dicts of the program, by address: key -> ID
    snaps,              \* the states get_mutable_state returned, in order
    result,             \* the last call: what was called and what it gave
    assigned,           \* history: each registry's inserts and their IDs
    restored,           \* history: set_mutable_state was called on it
    snap_table,         \* history: the table of each state when returned
    snap_ext,           \* history: configspace_ext of the exporting registry
    shadow,             \* history: replay by value of R2 once restored
    shadow_result,      \* history: what the replay gave for the last call
    get_config_type,    \* DebugLogPrinter.get_config_type
    block_info,         \* DebugLogPrinter.block_info
    emitted,            \* the records the last call passed to logger.info
    extra_lines,        \* history: append_extra calls held in block_info
    out_of_order,       \* history: in the block held or flushed last, a
                        \*   part was set after one the report lists later
    final_id,           \* history: the ID given to the configuration whose
                        \*   lines block_info holds
    loaded              \* the last call of load: its arguments and result

vars == <<config_counter, config_id_dict, configspace_ext, heap, snaps,
          result, assigned, restored, snap_table, snap_ext, shadow,
          shadow_result, get_config_type, block_info, emitted, extra_lines,
          out_of_order, final_id, loaded>>

\* the fields of the DebugLogPrinter apart from its registry
printer_vars == <<get_config_type, block_info, extra_lines, out_of_order,
                  final_id>>

\* the dict each ConfigCounter creates in __init__
HomeDict(r) == IF r = "R1" THEN 1 ELSE 2

EmptyDict == [k \in {} |-> 0]

\* the table a registry reads and writes
Table(r) == heap[config_id_dict[r]]

NoCall == [op |-> "none", reg |-> None, config |-> <<>>, arg |-> None,
           outcome |-> "none", value |-> None]

NoShadow == [active |-> FALSE, counter |-> 0, table |-> EmptyDict]

NoReplay == [outcome |-> "none", value |-> None]

\* load was not called yet
NoLoad == [path |-> None, format |-> None, content |-> <<>>,
           pointer |-> <<>>, outcome |-> "none", value |-> <<>>]

\* ConfigCounter.__init__ of both registries and DebugLogPrinter.__init__;
\* the registry of the DebugLogPrinter (its config_counter) is R1
Init ==
    /\ config_counter = [r \in Regs |-> 0]
    /\ config_id_dict = [r \in Regs |-> HomeDict(r)]
    /\ \E ext \in {None, ResourceAttr} :
           configspace_ext = [r \in Regs |-> ext]
    /\ heap = [d \in {HomeDict(r) : r \in Regs} |-> EmptyDict]
    /\ snaps = <<>>
    /\ result = NoCall
    /\ assigned = [r \in Regs |-> <<>>]
    /\ restored = [r \in Regs |-> FALSE]
    /\ snap_table = <<>>
    /\ snap_ext = <<>>
    /\ shadow = [r \in Regs |-> NoShadow]
    /\ shadow_result = NoReplay
    /\ get_config_type = None
    /\ block_info = EmptyDict
    /\ emitted = <<>>
    /\ extra_lines = 0
    /\ out_of_order = FALSE
    /\ final_id = Nothing
    /\ loaded = NoLoad

(***************************************************************************)
(* ConfigCounter                                                           *)
(***************************************************************************)
\* d[k] = v of Python
DictSet(d, k, v) == [kk \in DOMAIN d \cup {k} |-> IF kk = k THEN v ELSE d[kk]]

\* What a call gives: how it ended ("ok" or the exception raised), the
\* value it returned, and the counter and table it leaves.
Outcome(o, v, counter, table) ==
    [outcome |-> o, value |-> v, counter |-> counter, table |-> table]

\* add_config storing the ID after the running counter
add_config_off_by_one(counter, table, ext, config) ==
    LET k == to_key(config, ext) IN
    IF k.key \in DOMAIN table
    THEN Outcome("AssertionError", None, counter, table)
    ELSE Outcome("ok", <<k.config_dict, k.resource>>,
                 counter + 1, DictSet(table, k.key, counter + 1))

\* add_config treating a known key as a cache hit
add_config_cache_hit(counter, table, ext, config) ==
    LET k == to_key(config, ext) IN
    IF k.key \in DOMAIN table
    THEN Outcome("ok", <<k.config_dict, k.resource>>, counter, table)
    ELSE Outcome("ok", <<k.config_dict, k.resource>>,
                 counter + 1, DictSet(table, k.key, counter))

\* ConfigCounter.add_config on a registry with this counter and table
add_config(counter, table, ext, config) ==
    LET k == to_key(config, ext) IN
    IF k.key \in DOMAIN table
    THEN Outcome("AssertionError", None, counter, table)
    ELSE Outcome("ok", <<k.config_dict, k.resource>>,
                 counter + 1, DictSet(table, k.key, counter))

\* config_id assigning the next ID to a key it does not know
config_id_assign_on_lookup(counter, table, ext, config) ==
    LET k == to_key(config, ext)
        t == IF k.key \in DOMAIN table THEN table
             ELSE DictSet(table, k.key, counter)
        n == IF k.key \in DOMAIN table THEN counter ELSE counter + 1
    IN  IF k.resource = Nothing
        THEN Outcome("ok", ToString(t[k.key]), n, t)
        ELSE Outcome("ok", ToString(t[k.key]) \o ":"
                               \o ToString(k.resource[1]), n, t)

\* ConfigCounter.config_id on a registry with this counter and table
config_id(counter, table, ext, config) ==
    LET k == to_key(config, ext) IN
    IF k.key \notin DOMAIN table
    THEN Outcome("KeyError", None, counter, table)
    ELSE IF k.resource = Nothing
    THEN Outcome("ok", ToString(table[k.key]), counter, table)
    ELSE Outcome("ok", ToString(table[k.key]) \o ":"
                           \o ToString(k.resource[1]), counter, table)

\* ConfigCounter.get_mutable_state: the counter by value, the dict itself
get_mutable_state(r) ==
    [config_counter |-> config_counter[r], config_id |-> config_id_dict[r]]

Call(op, r, config, out) ==
    [op |-> op, reg |-> r, config |-> config, arg |-> None,
     outcome |-> out.outcome, value |-> out.value]

\* How a call on r changes r and the dict r holds
Apply(r, out) ==
    /\ config_counter' = [config_counter EXCEPT ![r] = out.counter]
    /\ heap' = [heap EXCEPT ![config_id_dict[r]] = out.table]

\* The same call on the by-value replay of r, when r has one
Replay(r, out, rep) ==
    IF shadow[r].active
    THEN /\ shadow_result' = [outcome |-> rep.outcome, value |-> rep.value]
         /\ shadow' = [shadow EXCEPT ![r] =
                IF rep.outcome = out.outcome
                THEN [active |-> TRUE, counter |-> rep.counter,
                      table |-> rep.table]
                ELSE NoShadow]
    ELSE /\ shadow_result' = NoReplay
         /\ shadow' = shadow

\* a registry nothing was inserted into and that was never restored
Fresh(r) == assigned[r] = <<>> /\ ~restored[r]

AddConfig(r, c) ==
    LET out == add_config(config_counter[r], Table(r), configspace_ext[r], c)
        rep == add_config(shadow[r].counter, shadow[r].table,
                          configspace_ext[r], c)
    IN  /\ \/ out.outcome # "ok"
           \/ /\ Cardinality(DOMAIN Table(r)) < MaxEntries
              /\ config_counter[r] < MaxEntries
        /\ Apply(r, out)
        /\ result' = Call("add_config", r, c, out)
        /\ assigned' = [assigned EXCEPT ![r] =
               IF out.outcome = "ok" /\ ~restored[r]
               THEN Append(@, [config |-> c,
                               id |-> out.table[to_key(c, configspace_ext[r]).key]])
               ELSE @]
        /\ Replay(r, out, rep)
        /\ emitted' = <<>>
        /\ UNCHANGED <<config_id_dict, configspace_ext, snaps, restored,
                       snap_table, snap_ext, printer_vars,
                       loaded>>

ConfigId(r, c) ==
    LET out == config_id(config_counter[r], Table(r), configspace_ext[r], c)
        rep == config_id(shadow[r].counter, shadow[r].table,
                         configspace_ext[r], c)
    IN  /\ Apply(r, out)
        /\ result' = Call("config_id", r, c, out)
        /\ Replay(r, out, rep)
        /\ emitted' = <<>>
        /\ UNCHANGED <<config_id_dict, configspace_ext, snaps, assigned,
                       restored, snap_table, snap_ext, printer_vars,
                       loaded>>

\* the caller keeps the states it is given, MaxSnaps of them at most
GetMutableState(r) ==
    /\ Len(snaps) < MaxSnaps
    /\ snaps' = Append(snaps, get_mutable_state(r))
    /\ snap_table' = Append(snap_table, Table(r))
    /\ snap_ext' = Append(snap_ext, configspace_ext[r])
    /\ result' = [op |-> "get_mutable_state", reg |-> r, config |-> <<>>,
                  arg |-> None, outcome |-> "ok",
                  value |-> get_mutable_state(r)]
    /\ shadow_result' = NoReplay
    /\ emitted' = <<>>
    /\ UNCHANGED <<config_counter, config_id_dict, configspace_ext, heap,
                   assigned, restored, shadow, printer_vars,
                   loaded>>

\* ConfigCounter.set_mutable_state(snaps[i]): the counter by value, and the
\* dict of the state becomes the dict of the registry
set_mutable_state(r, i) ==
    /\ config_counter' = [config_counter EXCEPT ![r] = snaps[i].config_counter]
    /\ config_id_dict' = [config_id_dict EXCEPT ![r] = snaps[i].config_id]
    /\ shadow' = [shadow EXCEPT ![r] =
           IF r = "R2" /\ Fresh(r) /\ configspace_ext[r] = snap_ext[i]
           THEN [active |-> TRUE, counter |-> snaps[i].config_counter,
                 table |-> snap_table[i]]
           ELSE NoShadow]
    /\ restored' = [restored EXCEPT ![r] = TRUE]
    /\ assigned' = [assigned EXCEPT ![r] = <<>>]
    /\ UNCHANGED <<configspace_ext, heap, snaps, snap_table, snap_ext>>

SetMutableState(r, i) ==
    /\ set_mutable_state(r, i)
    /\ result' = [op |-> "set_mutable_state", reg |-> r, config |-> <<>>,
                  arg |-> None, outcome |-> "ok", value |-> None]
    /\ shadow_result' = NoReplay
    /\ emitted' = <<>>
    /\ UNCHANGED <<printer_vars, loaded>>

\* one registry, called directly
NextRegistry ==
    \/ \E c \in Configs : AddConfig("R1", c)
    \/ \E c \in Configs : ConfigId("R1", c)
    \/ GetMutableState("R1")
    \/ \E i \in 1..Len(snaps) : SetMutableState("R1", i)

SpecRegistry == Init /\ [][NextRegistry]_vars

\* Round trip: R1 is used as before; R2 stays as constructed until a state
\* R1 exported is restored into it, and is then used like R1.
RestoreIntoFresh(i) == Fresh("R2") /\ SetMutableState("R2", i)

NextRoundTrip ==
    \/ \E c \in Configs : AddConfig("R1", c)
    \/ \E c \in Configs : ConfigId("R1", c)
    \/ GetMutableState("R1")
    \/ \E i \in 1..Len(snaps) : SetMutableState("R1", i)
    \/ \E i \in 1..Len(snaps) : RestoreIntoFresh(i)
    \/ \E c \in Configs : restored["R2"] /\ AddConfig("R2", c)
    \/ \E c \in Configs : restored["R2"] /\ ConfigId("R2", c)

SpecRoundTrip == Init /\ [][NextRoundTrip]_vars

(***************************************************************************)
(* DebugLogPrinter                                                         *)
(***************************************************************************)
\* append_extra is not called on a block that holds MaxExtra texts
MaxExtra == 1

\* what the caller passes to the DebugLogPrinter
GcTypes == {"random", "BO", "grid"}
FinalConfigs == {<<<<"x", 1>>>>, <<<<"x", 2>>>>}
CheckpointConfigs == {<<<<"x", 1>>>>,
                      <<<<"x", 1>>, <<ResourceAttr, 5>>>>,
                      <<<<"x", 2>>, <<ResourceAttr, 5>>>>}
StateInputs ==
    {[labeled |-> <<<<<<"x", 1>>>>>>, pending |-> <<>>],
     [labeled |-> <<<<<<"x", 1>>>>, <<<<"x", 2>>>>>>,
      pending |-> <<<<<<"x", 2>>, <<ResourceAttr, 9>>>>>>]}
TargetInputs == {<<1, 2>>}
GpParamInputs == {<<<<"noise", 1>>>>}
FantasyInputs == {<<2>>}
InitConfigInputs == {<<<<"x", 2>>, <<ResourceAttr, 9>>>>}
TopScoreInputs == {Nothing, Some(<<3>>)}
NumEvalInputs == {4}
ExtraInputs == {"a", "b"}

\* sep.join(strs)
RECURSIVE JoinStr(_, _)
JoinStr(strs, sep) ==
    IF strs = <<>> THEN ""
    ELSE IF Len(strs) = 1 THEN strs[1]
    ELSE strs[1] \o sep \o JoinStr(Tail(strs), sep)

\* str of a one-dimensional numpy array of integers: "[1 2]"
NumpyStr(vec) == "[" \o JoinInts(vec, " ") \o "]"

\* str of a dict with string keys and integer values: "{'noise': 1}"
PyDictStr(d) ==
    "{" \o JoinStr([i \in 1..Len(d) |->
                      "'" \o d[i][1] \o "': " \o ToString(d[i][2])], ", ")
        \o "}"

\* '\n'.join('{}: {}'.format(k, v) for k, v in config.items())
ConfigLines(config) ==
    JoinStr([i \in 1..Len(config) |->
               config[i][1] \o ": " \o ToString(config[i][2])], "\n")

\* a record passed to logger.info: the call site, the text, and for the
\* report of write_block the block_info fields of its parts, in order
LogRecord(site, msg, fields) == [site |-> site, msg |-> msg, fields |-> fields]

\* What a DebugLogPrinter call gives: how it ended, the block kind and the
\* block fields it leaves, and what it logged.
POut(o, type, info, logs) ==
    [outcome |-> o, type |-> type, info |-> info, logs |-> logs]

\* start_get_config accepting a block while one is open
start_get_config_reopen(type, info, counter, gc_type) ==
    IF gc_type \notin {"random", "BO"}
    THEN POut("AssertionError", type, info, <<>>)
    ELSE POut("ok", gc_type, info,
              <<LogRecord("start_get_config",
                          "Starting get_config[" \o gc_type
                              \o "] for config_id " \o ToString(counter),
                          <<>>)>>)

\* DebugLogPrinter.start_get_config
start_get_config(type, info, counter, gc_type) ==
    IF gc_type \notin {"random", "BO"}
    THEN POut("AssertionError", type, info, <<>>)
    ELSE IF type # None
    THEN POut("AssertionError", type, info, <<>>)
    ELSE POut("ok", gc_type, info,
              <<LogRecord("start_get_config",
                          "Starting get_config[" \o gc_type
                              \o "] for config_id " \o ToString(counter),
                          <<>>)>>)

\* the assertion of the BO setters asking for an open block of any kind
InBOBlock_any_open(type) == type # None

\* assert self.get_config_type == 'BO' of the six BO setters
InBOBlock(type) == type = "BO"

\* a BO setter: the assertion, then block_info[field] = value
BOSetter(type, info, field, value) ==
    IF ~InBOBlock(type)
    THEN POut("AssertionError", type, info, <<>>)
    ELSE POut("ok", type, DictSet(info, field, value), <<>>)

\* DebugLogPrinter.set_state: the IDs of the labeled, then of the pending
\* configurations; config_id raises KeyError for one the registry lacks
set_state(type, info, counter, table, ext, state) ==
    LET Ids(cs) == [i \in 1..Len(cs) |-> config_id(counter, table, ext, cs[i])]
        Known(cs) == \A i \in 1..Len(cs) : Ids(cs)[i].outcome = "ok"
        Str(cs) == JoinStr([i \in 1..Len(cs) |-> Ids(cs)[i].value], ", ")
    IN  IF ~InBOBlock(type)
        THEN POut("AssertionError", type, info, <<>>)
        ELSE IF ~(Known(state.labeled) /\ Known(state.pending))
        THEN POut("KeyError", type, info, <<>>)
        ELSE POut("ok", type,
                  DictSet(info, "state",
                          "Labeled: " \o Str(state.labeled)
                              \o ". Pending: " \o Str(state.pending)),
                  <<>>)

\* DebugLogPrinter.set_targets
set_targets(type, info, targets) ==
    BOSetter(type, info, "targets", "Targets: " \o NumpyStr(targets))

\* DebugLogPrinter.set_gp_params
set_gp_params(type, info, params) ==
    BOSetter(type, info, "params", "GP params:" \o PyDictStr(params))

\* DebugLogPrinter.set_fantasies
set_fantasies(type, info, fantasies) ==
    BOSetter(type, info, "fantasies",
             "Fantasized targets:\n" \o NumpyStr(fantasies))

\* DebugLogPrinter.set_init_config
set_init_config(type, info, ext, config, top_scores) ==
    LET msg == "Started BO from (top scorer):\n"
                   \o ConfigLines(to_key(config, ext).config_dict)
    IN  BOSetter(type, info, "start_config",
                 IF top_scores # Nothing
                 THEN msg \o "\nTop score values: " \o NumpyStr(top_scores[1])
                 ELSE msg)

\* DebugLogPrinter.set_num_evaluations
set_num_evaluations(type, info, num_evals) ==
    BOSetter(type, info, "num_evals", num_evals)

\* DebugLogPrinter.append_extra
append_extra(type, info, extra) ==
    IF "extra" \in DOMAIN info
    THEN POut("ok", type,
              DictSet(info, "extra", JoinStr(<<info["extra"], extra>>, "\n")),
              <<>>)
    ELSE POut("ok", type, DictSet(info, "extra", extra), <<>>)

\* the parts of the report with the targets ahead of the state
ReportFields_targets_first(type, info) ==
    LET Opt(name) == IF name \in DOMAIN info THEN <<name>> ELSE <<>>
    IN  <<"final_config">>
        \o (IF type = "BO"
            THEN Opt("start_config") \o Opt("targets") \o Opt("state")
                     \o Opt("params") \o Opt("fantasies")
            ELSE <<>>)
        \o Opt("extra")

\* the parts of the report after the header, as block_info fields
ReportFields(type, info) ==
    LET Opt(name) == IF name \in DOMAIN info THEN <<name>> ELSE <<>>
    IN  <<"final_config">>
        \o (IF type = "BO"
            THEN Opt("start_config") \o Opt("state") \o Opt("targets")
                     \o Opt("params") \o Opt("fantasies")
            ELSE <<>>)
        \o Opt("extra")

\* the loop over ('state', 'targets', 'params') left at the first part
\* that is missing
MissingParts_first_only(type, info) ==
    LET Miss(name) ==
            <<LogRecord("write_block.missing",
                        "debug_log.write_block: '" \o name
                            \o "' part is missing!", <<>>)>>
    IN  IF type # "BO" THEN <<>>
        ELSE IF "state" \notin DOMAIN info THEN Miss("state")
        ELSE IF "targets" \notin DOMAIN info THEN Miss("targets")
        ELSE IF "params" \notin DOMAIN info THEN Miss("params")
        ELSE <<>>

\* the logger.info calls of the loop over ('state', 'targets', 'params')
MissingParts(type, info) ==
    LET Miss(name) ==
            IF name \in DOMAIN info THEN <<>>
            ELSE <<LogRecord("write_block.missing",
                             "debug_log.write_block: '" \o name
                                 \o "' part is missing!", <<>>)>>
    IN  IF type = "BO"
        THEN Miss("state") \o Miss("targets") \o Miss("params")
        ELSE <<>>

\* the report of write_block
BlockReport(type, info, counter) ==
    LET head == "[" \o ToString(counter - 1) \o ": " \o type \o "]"
        header == IF "num_evals" \in DOMAIN info
                  THEN head \o " (" \o ToString(info["num_evals"])
                           \o " evaluations)"
                  ELSE head
        fields == ReportFields(type, info)
        parts == <<header>> \o [i \in 1..Len(fields) |-> info[fields[i]]]
    IN  LogRecord("write_block.report", JoinStr(parts, "\n"),
                  <<"header">> \o fields)

\* write_block without the assertion that a block is open
write_block_unguarded(type, info, counter) ==
    IF "final_config" \notin DOMAIN info
    THEN POut("KeyError", type, info, <<>>)
    ELSE POut("ok", None, EmptyDict,
              MissingParts(type, info) \o <<BlockReport(type, info, counter)>>)

\* write_block closing the block and keeping its fields
write_block_keep_fields(type, info, counter) ==
    IF type = None
    THEN POut("AssertionError", type, info, <<>>)
    ELSE IF "final_config" \notin DOMAIN info
    THEN POut("KeyError", type, info, <<>>)
    ELSE POut("ok", None, info,
              MissingParts(type, info) \o <<BlockReport(type, info, counter)>>)

\* DebugLogPrinter.write_block
write_block(type, info, counter) ==
    IF type = None
    THEN POut("AssertionError", type, info, <<>>)
    ELSE IF "final_config" \notin DOMAIN info
    THEN POut("KeyError", type, info, <<>>)
    ELSE POut("ok", None, EmptyDict,
              MissingParts(type, info) \o <<BlockReport(type, info, counter)>>)

KeyOfExt(config, ext) == to_key(config, ext).key

\* What set_final_config gives: as POut, and the counter and table it
\* leaves in the registry.
FOut(o, type, info, counter, table) ==
    [outcome |-> o, type |-> type, info |-> info, logs |-> <<>>,
     counter |-> counter, table |-> table]

\* DebugLogPrinter.set_final_config: the insert is made before the
\* assertion on the resource
set_final_config(type, info, counter, table, ext, config) ==
    LET ins == add_config(counter, table, ext, config) IN
    IF type = None
    THEN FOut("AssertionError", type, info, counter, table)
    ELSE IF ins.outcome # "ok"
    THEN FOut("AssertionError", type, info, counter, table)
    ELSE IF ins.value[2] # Nothing
    THEN FOut("AssertionError", type, info, ins.counter, ins.table)
    ELSE FOut("ok", type,
              DictSet(info, "final_config", ConfigLines(ins.value[1])),
              ins.counter, ins.table)

\* the place of a block field in the report; num_evals is in the header
FieldRank(f) ==
    CASE f = "num_evals" -> 0 [] f = "final_config" -> 1
      [] f = "start_config" -> 2 [] f = "state" -> 3 [] f = "targets" -> 4
      [] f = "params" -> 5 [] f = "fantasies" -> 6 [] f = "extra" -> 7

\* A call on the DebugLogPrinter: its block kind, block fields and log
PrinterStep(op, config, arg, out) ==
    /\ get_config_type' = out.type
    /\ block_info' = out.info
    /\ emitted' = out.logs
    /\ result' = [op |-> op, reg |-> "R1", config |-> config, arg |-> arg,
                  outcome |-> out.outcome, value |-> None]
    /\ shadow_result' = NoReplay
    /\ out_of_order' =
           IF DOMAIN out.info = {} THEN out_of_order
           ELSE IF DOMAIN block_info = {} THEN FALSE
           ELSE \/ out_of_order
                \/ \E f \in DOMAIN out.info \ DOMAIN block_info,
                       g \in DOMAIN block_info : FieldRank(f) < FieldRank(g)
    /\ final_id' =
           IF "final_config" \notin DOMAIN out.info THEN Nothing
           ELSE IF op = "set_final_config" /\ out.outcome = "ok"
           THEN Some(out.table[KeyOfExt(config, configspace_ext["R1"])])
           ELSE final_id
    /\ UNCHANGED loaded

\* what a call that does not touch the registry leaves alone
registry_vars == <<config_counter, config_id_dict, configspace_ext, heap,
                   snaps, assigned, restored, snap_table, snap_ext, shadow>>

StartGetConfig(gc_type) ==
    /\ PrinterStep("start_get_config", <<>>, gc_type,
                   start_get_config(get_config_type, block_info,
                                    config_counter["R1"], gc_type))
    /\ UNCHANGED <<registry_vars, extra_lines>>

SetFinalConfig(c) ==
    LET out == set_final_config(get_config_type, block_info,
                                config_counter["R1"], Table("R1"),
                                configspace_ext["R1"], c)
        minted == out.counter # config_counter["R1"]
    IN  /\ \/ ~minted
           \/ /\ Cardinality(DOMAIN Table("R1")) < MaxEntries
              /\ config_counter["R1"] < MaxEntries
        /\ PrinterStep("set_final_config", c, None, out)
        /\ Apply("R1", out)
        /\ assigned' = [assigned EXCEPT !["R1"] =
               IF minted /\ ~restored["R1"]
               THEN Append(@, [config |-> c,
                               id |-> out.table[KeyOfExt(c, configspace_ext["R1"])]])
               ELSE @]
        /\ UNCHANGED <<config_id_dict, configspace_ext, snaps, restored,
                       snap_table, snap_ext, shadow, extra_lines>>

SetState(state) ==
    /\ PrinterStep("set_state", <<>>, None,
                   set_state(get_config_type, block_info,
                             config_counter["R1"], Table("R1"),
                             configspace_ext["R1"], state))
    /\ UNCHANGED <<registry_vars, extra_lines>>

SetTargets(targets) ==
    /\ PrinterStep("set_targets", <<>>, None,
                   set_targets(get_config_type, block_info, targets))
    /\ UNCHANGED <<registry_vars, extra_lines>>

SetGpParams(params) ==
    /\ PrinterStep("set_gp_params", <<>>, None,
                   set_gp_params(get_config_type, block_info, params))
    /\ UNCHANGED <<registry_vars, extra_lines>>

SetFantasies(fantasies) ==
    /\ PrinterStep("set_fantasies", <<>>, None,
                   set_fantasies(get_config_type, block_info, fantasies))
    /\ UNCHANGED <<registry_vars, extra_lines>>

SetInitConfig(c, top_scores) ==
    /\ PrinterStep("set_init_config", <<>>, None,
                   set_init_config(get_config_type, block_info,
                                   configspace_ext["R1"], c, top_scores))
    /\ UNCHANGED <<registry_vars, extra_lines>>

SetNumEvaluations(n) ==
    /\ PrinterStep("set_num_evaluations", <<>>, None,
                   set_num_evaluations(get_config_type, block_info, n))
    /\ UNCHANGED <<registry_vars, extra_lines>>

AppendExtra(extra) ==
    /\ extra_lines < MaxExtra
    /\ PrinterStep("append_extra", <<>>, None,
                   append_extra(get_config_type, block_info, extra))
    /\ extra_lines' = extra_lines + 1
    /\ UNCHANGED registry_vars

WriteBlock ==
    LET out == write_block(get_config_type, block_info, config_counter["R1"])
    IN  /\ PrinterStep("write_block", <<>>, None, out)
        /\ extra_lines' = IF out.outcome = "ok" THEN 0 ELSE extra_lines
        /\ UNCHANGED registry_vars

\* DebugLogPrinter.config_id and DebugLogPrinter.get_mutable_state hand the
\* call to the registry
PrinterConfigId(c) == ConfigId("R1", c)

PrinterGetMutableState == GetMutableState("R1")

\* set_mutable_state of the DebugLogPrinter restoring whatever is open
PrinterSetMutableState_while_open(i) ==
    /\ set_mutable_state("R1", i)
    /\ PrinterStep("printer_set_mutable_state", <<>>, i,
                   POut("ok", get_config_type, EmptyDict, <<>>))
    /\ extra_lines' = 0

\* DebugLogPrinter.set_mutable_state(snaps[i])
PrinterSetMutableState(i) ==
    IF get_config_type # None
    THEN /\ PrinterStep("printer_set_mutable_state", <<>>, i,
                        POut("AssertionError", get_config_type, block_info,
                             <<>>))
         /\ UNCHANGED <<registry_vars, extra_lines>>
    ELSE /\ set_mutable_state("R1", i)
         /\ PrinterStep("printer_set_mutable_state", <<>>, i,
                        POut("ok", get_config_type, EmptyDict, <<>>))
         /\ extra_lines' = 0

\* the addresses of the dicts something still refers to once the
\* DebugLogPrinter drops its registry
Referenced ==
    {config_id_dict["R2"]} \cup {snaps[i].config_id : i \in 1..Len(snaps)}

\* the address of a new dict: the first one nothing refers to
NewDict == CHOOSE d \in 1..(Cardinality(Referenced) + 1) :
               /\ d \notin Referenced
               /\ \A e \in 1..(d - 1) : e \in Referenced

\* DebugLogPrinter.set_configspace_ext: the registry is replaced by a new
\* ConfigCounter, with counter 0 and a new empty dict
SetConfigspaceExt(ext) ==
    /\ config_counter' = [config_counter EXCEPT !["R1"] = 0]
    /\ config_id_dict' = [config_id_dict EXCEPT !["R1"] = NewDict]
    /\ configspace_ext' = [configspace_ext EXCEPT !["R1"] = ext]
    /\ heap' = [d \in Referenced \cup {NewDict} |->
                   IF d = NewDict THEN EmptyDict ELSE heap[d]]
    /\ assigned' = [assigned EXCEPT !["R1"] = <<>>]
    /\ restored' = [restored EXCEPT !["R1"] = FALSE]
    /\ PrinterStep("set_configspace_ext", <<>>, None,
                   POut("ok", get_config_type, block_info, <<>>))
    /\ UNCHANGED <<snaps, snap_table, snap_ext, shadow, extra_lines>>

\* One search loop: blocks are opened, filled by the setters and flushed
Next ==
    \/ \E k \in GcTypes : StartGetConfig(k)
    \/ \E c \in FinalConfigs : SetFinalConfig(c)
    \/ \E st \in StateInputs : SetState(st)
    \/ \E t \in TargetInputs : SetTargets(t)
    \/ \E g \in GpParamInputs : SetGpParams(g)
    \/ \E f \in FantasyInputs : SetFantasies(f)
    \/ \E c \in InitConfigInputs, t \in TopScoreInputs : SetInitConfig(c, t)
    \/ \E n \in NumEvalInputs : SetNumEvaluations(n)
    \/ \E e \in ExtraInputs : AppendExtra(e)
    \/ WriteBlock

Spec == Init /\ [][Next]_vars

\* A search loop that is checkpointed: blocks are opened, finalized and
\* flushed, the state of the registry is exported and restored, and the
\* extended configuration space is set
NextCheckpoint ==
    \/ \E k \in GcTypes : StartGetConfig(k)
    \/ \E c \in CheckpointConfigs : SetFinalConfig(c)
    \/ \E n \in NumEvalInputs : SetNumEvaluations(n)
    \/ \E e \in ExtraInputs : AppendExtra(e)
    \/ WriteBlock
    \/ \E c \in CheckpointConfigs : PrinterConfigId(c)
    \/ PrinterGetMutableState
    \/ \E i \in 1..Len(snaps) : PrinterSetMutableState(i)
    \/ SetConfigspaceExt(ResourceAttr)

SpecCheckpoint == Init /\ [][NextCheckpoint]_vars

(***************************************************************************)
(* load_pkl: load                                                          *)
(***************************************************************************)
\* a pickle of the model has MaxItems values and global references at most
MaxItems == 2

safe_builtins == {"range", "complex", "set", "frozenset", "slice"}

\* What a pickle is made of: values, and references to globals, which the
\* unpickler resolves with find_class.
PickledValue(v) == [kind |-> "value", module |-> "", name |-> v]
PickledGlobal(m, n) == [kind |-> "global", module |-> m, name |-> n]

Items == {PickledValue("1"), PickledGlobal("builtins", "range"),
          PickledGlobal("builtins", "eval"), PickledGlobal("os", "system")}

\* the bytes of a file or of an S3 object; the empty one is an empty file
Contents == UNION {[1..n -> Items] : n \in 0..MaxItems}

Paths == {"a.pkl", "a.pointer", "s3://b/a.pkl"}
Formats == {None, "pointer", "s3"}

\* path.endswith('.pointer')
EndsWithPointer(path) == path = "a.pointer"

\* s3_utils.is_s3_url(path)
is_s3_url(path) == path = "s3://b/a.pkl"

\* What unpickling gives: how it ended and the object, if there is one.
LOut(o, v) == [outcome |-> o, value |-> v]

\* RestrictedUnpickler.find_class
find_class(module, name) ==
    IF module = "builtins" /\ name \in safe_builtins
    THEN LOut("ok", "builtins." \o name)
    ELSE LOut("UnpicklingError", "")

\* find_class of pickle.Unpickler: any global is imported
Unpickler_find_class(module, name) == LOut("ok", module \o "." \o name)

\* Unpickler(...).load() over these bytes, with find_class of the
\* RestrictedUnpickler or of pickle.Unpickler: no bytes give EOFError; the
\* object is made of the values and the resolved globals
Unpickle(data, restricted) ==
    LET item(i) == IF data[i].kind # "global"
                   THEN LOut("ok", data[i].name)
                   ELSE IF restricted
                   THEN find_class(data[i].module, data[i].name)
                   ELSE Unpickler_find_class(data[i].module, data[i].name)
    IN  IF data = <<>> THEN LOut("EOFError", Nothing)
        ELSE IF \E i \in 1..Len(data) : item(i).outcome # "ok"
        THEN LOut("UnpicklingError", Nothing)
        ELSE LOut("ok", Some([i \in 1..Len(data) |-> item(i).value]))

\* restricted_loads(s)
restricted_loads(s) == Unpickle(s, TRUE)

\* pickle.loads(s)
pickle_loads(s) == Unpickle(s, FALSE)

\* open(path, 'rb'): the stream is at the start of the file
Open(content) == [content |-> content, pos |-> 0]

\* what is left to read of a stream
Rest(fin) == SubSeq(fin.content, fin.pos + 1, Len(fin.content))

\* fin.read(): all that is left, and the stream is at its end
Read(fin) == [data |-> Rest(fin),
              fin |-> [fin EXCEPT !.pos = Len(fin.content)]]

\* pickle.load(fin): unpickles what is left to read of the stream
pickle_load(fin) == pickle_loads(Rest(fin))

\* load(path, format): content is what the file or S3 object read holds,
\* get_pointer_content what load_pointer.get_pointer_content gives
RECURSIVE load(_, _, _, _)
load(path, format, content, get_pointer_content) ==
    LET fmt == IF EndsWithPointer(path) THEN "pointer"
               ELSE IF is_s3_url(path) THEN "s3"
               ELSE format
        content_path == get_pointer_content[path]
        rd == Read(Open(content))
        check == restricted_loads(rd.data)
    IN  IF fmt = "pointer"
        THEN IF content_path = path
             THEN LOut("RecursionError", Nothing)
             ELSE load(content_path, None, content, get_pointer_content)
        ELSE IF fmt = "s3"
        THEN pickle_loads(content)
        ELSE IF check.outcome # "ok"
        THEN LOut(check.outcome, Nothing)
        ELSE pickle_load(rd.fin)

\* one call of load; load keeps nothing from one call to the next
Load(path, format, content, get_pointer_content) ==
    LET out == load(path, format, content, get_pointer_content)
    IN  /\ loaded.outcome = "none"
        /\ loaded' = [path |-> path, format |-> format, content |-> content,
                      pointer |-> get_pointer_content,
                      outcome |-> out.outcome, value |-> out.value]
        /\ UNCHANGED <<registry_vars, printer_vars, result, shadow_result,
                       emitted>>

NextLoad ==
    \E path \in Paths, format \in Formats, content \in Contents,
       get_pointer_content \in [Paths -> Paths] :
        Load(path, format, content, get_pointer_content)

SpecLoad == Init /\ [][NextLoad]_vars

(***************************************************************************)
(* Properties of the registry                                              *)
(***************************************************************************)
\* the entries of a configuration other than its resource entry, as a set
BaseEntries(config, ext) ==
    {config[i] : i \in {j \in 1..Len(config) : config[j][1] # ext}}

KeyOf(r, config) == to_key(config, configspace_ext[r]).key

\* C1: on a registry that starts fresh and is never restored, the n-th
\* successful insert is given ID n-1, and the counter is the number of
\* successful inserts whatever failed inserts and identifier calls were made
\* in between.
C1_DenseIds ==
    \A r \in Regs : ~restored[r] =>
        /\ \A n \in 1..Len(assigned[r]) : assigned[r][n].id = n - 1
        /\ config_counter[r] = Len(assigned[r])

\* two inserts succeeded, then an insert failed
C1_Witness ==
    /\ ~restored["R1"]
    /\ Len(assigned["R1"]) = 2
    /\ result.op = "add_config" /\ result.reg = "R1"
    /\ result.outcome = "AssertionError"
    /\ Table("R1")[KeyOf("R1", assigned["R1"][2].config)] = 1

\* C2: an insert of a configuration whose key is in the table fails with
\* the assertion error, returns nothing, and leaves counter and table as
\* they were.
C2_DuplicateFails ==
    [][\A r \in Regs :
          (/\ result'.op = "add_config"
           /\ result'.reg = r
           /\ KeyOf(r, result'.config) \in DOMAIN Table(r))
          => /\ result'.outcome = "AssertionError"
             /\ result'.value = None
             /\ config_counter' = config_counter
             /\ config_id_dict' = config_id_dict
             /\ heap' = heap]_vars

\* an insert of a known key was made and failed
C2_Witness ==
    /\ result.op = "add_config" /\ result.reg = "R1"
    /\ KeyOf("R1", result.config) \in DOMAIN Table("R1")
    /\ result.outcome = "AssertionError"
    /\ config_counter["R1"] = 1

\* both carry a resource value, the values differ, the other entries agree
SameBaseOtherResource(c1, c2, ext) ==
    /\ HasName(c1, ext) /\ HasName(c2, ext)
    /\ DictGet(c1, ext) # DictGet(c2, ext)
    /\ BaseEntries(c1, ext) = BaseEntries(c2, ext)

\* C3: with a resource attribute registered, once c1 is inserted the
\* identifiers of c1 and of any c2 with the same non-resource entries and
\* another resource value are "<id>:<r1>" and "<id>:<r2>" for one id, and
\* an insert of c2 fails as a duplicate.
C3_SharedBaseId ==
    \A r \in Regs : configspace_ext[r] = ResourceAttr =>
        \A c1, c2 \in Configs :
            (/\ SameBaseOtherResource(c1, c2, configspace_ext[r])
             /\ KeyOf(r, c1) \in DOMAIN Table(r))
            => LET ext == configspace_ext[r]
                   i1 == config_id(config_counter[r], Table(r), ext, c1)
                   i2 == config_id(config_counter[r], Table(r), ext, c2)
                   ins == add_config(config_counter[r], Table(r), ext, c2)
                   id == ToString(Table(r)[KeyOf(r, c1)])
               IN  /\ i1.outcome = "ok" /\ i2.outcome = "ok"
                   /\ i1.value = id \o ":" \o ToString(DictGet(c1, ext)[1])
                   /\ i2.value = id \o ":" \o ToString(DictGet(c2, ext)[1])
                   /\ ins.outcome = "AssertionError"

\* {x:1, resource:5} was the one insert, and identifier of
\* {x:1, resource:9} gave "0:9"
C3_Witness ==
    /\ configspace_ext["R1"] = ResourceAttr
    /\ Len(assigned["R1"]) = 1
    /\ assigned["R1"][1].config = <<<<"x", 1>>, <<ResourceAttr, 5>>>>
    /\ result.op = "config_id" /\ result.reg = "R1"
    /\ result.config = <<<<"x", 1>>, <<ResourceAttr, 9>>>>
    /\ result.outcome = "ok"
    /\ result.value = "0:9"

\* C4: on a never restored registry an insert succeeds unless a
\* configuration with the same non-resource entries was inserted before,
\* and configurations whose non-resource entries differ in a name or in a
\* value have different IDs.
C4_DistinctConfigsDistinctIds ==
    \A r \in Regs : ~restored[r] =>
        LET ext == configspace_ext[r]
            Inserted == {assigned[r][n].config : n \in 1..Len(assigned[r])}
        IN  /\ (/\ result.op = "add_config"
                /\ result.reg = r
                /\ \A c \in Inserted :
                       BaseEntries(c, ext) # BaseEntries(result.config, ext))
               => result.outcome = "ok"
            /\ \A m, n \in 1..Len(assigned[r]) :
                   BaseEntries(assigned[r][m].config, ext)
                       # BaseEntries(assigned[r][n].config, ext)
                   => assigned[r][m].id # assigned[r][n].id

\* C5: the counter is the number of entries of the table, and the IDs of
\* the table are 0 .. counter-1.
C5_CounterIsSize ==
    \A r \in Regs :
        /\ config_counter[r] = Cardinality(DOMAIN Table(r))
        /\ {Table(r)[k] : k \in DOMAIN Table(r)} = 0..(config_counter[r] - 1)

\* C6: an identifier call leaves the counter and the table as they were;
\* for a key not in the table it fails with a lookup error, and an insert
\* of that configuration made next is given the ID that was next before.
C6_IdentifierReadsOnly ==
    [][\A r \in Regs :
          (result'.op = "config_id" /\ result'.reg = r)
          => /\ config_counter' = config_counter
             /\ config_id_dict' = config_id_dict
             /\ heap' = heap
             /\ KeyOf(r, result'.config) \notin DOMAIN Table(r)
                => /\ result'.outcome = "KeyError"
                   /\ LET ins == add_config(config_counter'[r],
                                            heap'[config_id_dict'[r]],
                                            configspace_ext[r],
                                            result'.config)
                      IN  /\ ins.outcome = "ok"
                          /\ ins.table[KeyOf(r, result'.config)]
                                 = config_counter[r]]_vars

\* an identifier call for an unknown key was made on a registry that holds
\* an entry, and failed
C6_Witness ==
    /\ result.op = "config_id" /\ result.reg = "R1"
    /\ result.outcome = "KeyError"
    /\ config_counter["R1"] = 1
    /\ Cardinality(DOMAIN Table("R1")) = 1

\* C7: once a state exported by R1 is restored into the fresh R2, which has
\* the extractor of R1, every insert and identifier call on R2 gives what
\* the same calls give on a registry holding the counter and table R1 had
\* at the export.
C7_RoundTrip ==
    shadow_result.outcome # "none"
    => /\ result.outcome = shadow_result.outcome
       /\ result.value = shadow_result.value

(***************************************************************************)
(* Properties of the DebugLogPrinter                                       *)
(***************************************************************************)
\* the step leaves the registry of the DebugLogPrinter as it was
RegistryUnchanged ==
    /\ config_counter' = config_counter
    /\ config_id_dict' = config_id_dict
    /\ configspace_ext' = configspace_ext
    /\ heap' = heap

\* the step leaves the block kind and the block fields as they were
BlockUnchanged ==
    /\ get_config_type' = get_config_type
    /\ block_info' = block_info

\* C8: start_get_config of kind random or BO, called while a block of
\* either kind is open, fails and leaves the open kind, the block fields and
\* the registry as they were.
C8_OneBlockAtATime ==
    [][(/\ result'.op = "start_get_config"
        /\ result'.arg \in {"random", "BO"}
        /\ get_config_type \in {"random", "BO"})
       => /\ result'.outcome = "AssertionError"
          /\ emitted' = <<>>
          /\ BlockUnchanged
          /\ RegistryUnchanged]_vars

\* a BO block was asked for while a random block holding a finalized
\* configuration was open, and the call failed
C8_Witness ==
    /\ result.op = "start_get_config"
    /\ result.arg = "BO"
    /\ result.outcome = "AssertionError"
    /\ get_config_type = "random"
    /\ "final_config" \in DOMAIN block_info

BOSetterOps == {"set_state", "set_targets", "set_gp_params", "set_fantasies",
                "set_init_config", "set_num_evaluations"}

\* C9: each of the six BO setters, called in an open random block or with
\* no block open, fails and leaves the block fields, the block kind and the
\* registry as they were.
C9_BOSettersNeedBOBlock ==
    [][(result'.op \in BOSetterOps /\ get_config_type # "BO")
       => /\ result'.outcome = "AssertionError"
          /\ emitted' = <<>>
          /\ BlockUnchanged
          /\ RegistryUnchanged]_vars

\* set_state was called in a random block holding a finalized
\* configuration the registry knows, and failed
C9_Witness ==
    /\ result.op = "set_state"
    /\ result.outcome = "AssertionError"
    /\ get_config_type = "random"
    /\ "final_config" \in DOMAIN block_info
    /\ KeyOf("R1", <<<<"x", 1>>>>) \in DOMAIN Table("R1")

\* C10: write_block called with no block open fails on its assertion, logs
\* nothing, and leaves the DebugLogPrinter idle with block fields and
\* registry as they were.
C10_FlushNeedsOpenBlock ==
    [][(result'.op = "write_block" /\ get_config_type = None)
       => /\ result'.outcome = "AssertionError"
          /\ emitted' = <<>>
          /\ BlockUnchanged
          /\ RegistryUnchanged]_vars

\* write_block failed with no block open after a block was finalized and
\* flushed
C10_Witness ==
    /\ result.op = "write_block"
    /\ result.outcome = "AssertionError"
    /\ get_config_type = None
    /\ config_counter["R1"] = 1

\* C11: write_block on an open block that set_final_config never filled
\* completes: it logs a report, and leaves the DebugLogPrinter idle with no
\* block fields, so that start_get_config succeeds next.
C11_FlushWithoutFinalConfig ==
    [][(/\ result'.op = "write_block"
        /\ get_config_type # None
        /\ "final_config" \notin DOMAIN block_info)
       => /\ result'.outcome = "ok"
          /\ \E i \in 1..Len(emitted') :
                 emitted'[i].site = "write_block.report"
          /\ get_config_type' = None
          /\ \A k \in {"random", "BO"} :
                 start_get_config(get_config_type', block_info',
                                  config_counter'["R1"], k).outcome = "ok"]_vars

\* C12: set_mutable_state of the DebugLogPrinter fails while a block is open
\* and leaves the registry, the open kind and the block fields as they were;
\* called while idle it gives the registry the counter and the table of the
\* state and leaves the block fields empty.
C12_RestoreOnlyWhileIdle ==
    [][result'.op = "printer_set_mutable_state"
       => IF get_config_type # None
          THEN /\ result'.outcome = "AssertionError"
               /\ BlockUnchanged
               /\ RegistryUnchanged
          ELSE /\ result'.outcome = "ok"
               /\ config_counter'["R1"] = snaps[result'.arg].config_counter
               /\ heap'[config_id_dict'["R1"]]
                      = heap[snaps[result'.arg].config_id]
               /\ get_config_type' = None
               /\ block_info' = EmptyDict]_vars

\* a restore was refused in an open block holding a finalized configuration
\* that the state to restore does not hold
C12_Witness ==
    /\ result.op = "printer_set_mutable_state"
    /\ result.outcome = "AssertionError"
    /\ get_config_type # None
    /\ "final_config" \in DOMAIN block_info
    /\ config_counter["R1"] = 1
    /\ snaps[result.arg].config_counter = 0
    /\ config_id_dict["R1"] # snaps[result.arg].config_id

\* the header of the report of the block that is open
ReportHeader ==
    "[" \o ToString(config_counter["R1"] - 1) \o ": " \o get_config_type
        \o "]"
        \o (IF "num_evals" \in DOMAIN block_info
            THEN " (" \o ToString(block_info["num_evals"]) \o " evaluations)"
            ELSE "")

\* C13: the report of a successful write_block is the header, then the
\* finalized configuration, then those of start configuration, state,
\* targets, GP parameters, fantasies and extra that the block holds, in this
\* order whatever the order of the calls that set them; a random block gives
\* the header, the finalized configuration and the extra text only.
C13_FixedReportOrder ==
    [][(result'.op = "write_block" /\ result'.outcome = "ok")
       => LET rec == emitted'[Len(emitted')]
              fields == rec.fields
              n == Len(fields)
          IN  /\ rec.site = "write_block.report"
              /\ n >= 2
              /\ fields[1] = "header"
              /\ fields[2] = "final_config"
              /\ \A i \in 2..n : fields[i] \in DOMAIN block_info \ {"num_evals"}
              /\ \A i, j \in 2..n :
                     i < j => FieldRank(fields[i]) < FieldRank(fields[j])
              /\ get_config_type = "random"
                 => \A i \in 2..n : fields[i] \in {"final_config", "extra"}
              /\ get_config_type = "BO"
                 => \A f \in DOMAIN block_info \ {"num_evals"} :
                        \E i \in 2..n : fields[i] = f
              /\ "extra" \in DOMAIN block_info => fields[n] = "extra"
              /\ rec.msg = JoinStr(<<ReportHeader>>
                                   \o [i \in 1..(n - 1) |->
                                         block_info[fields[i + 1]]], "\n")]_vars

\* a BO block whose parts were not set in the order of the report was
\* flushed, and its report has all eight parts
C13_Witness ==
    /\ result.op = "write_block"
    /\ result.outcome = "ok"
    /\ out_of_order
    /\ emitted # <<>>
    /\ emitted[Len(emitted)].fields
           = <<"header", "final_config", "start_config", "state", "targets",
               "params", "fantasies", "extra">>

ExpectedParts == {"state", "targets", "params"}

\* the records among logs that say that this part is missing
MissingRecords(logs, name) ==
    {i \in 1..Len(logs) :
        /\ logs[i].site = "write_block.missing"
        /\ logs[i].msg = "debug_log.write_block: '" \o name
                             \o "' part is missing!"}

\* C14: in a block that holds a finalized configuration write_block
\* succeeds whichever of state, targets and GP parameters were set; in a BO
\* block each of the three that is absent gives exactly one record of its
\* own saying so and is not in the report, each that is present is in the
\* report and gives no such record; a random block gives no such record.
C14_MissingPartsAreNoted ==
    [][(/\ result'.op = "write_block"
        /\ get_config_type # None
        /\ "final_config" \in DOMAIN block_info)
       => /\ result'.outcome = "ok"
          /\ emitted' # <<>>
          /\ LET n == Len(emitted')
                 report == emitted'[n]
                 InReport(name) ==
                     \E i \in 1..Len(report.fields) : report.fields[i] = name
                 Absent == IF get_config_type = "BO"
                           THEN ExpectedParts \ DOMAIN block_info
                           ELSE {}
             IN  /\ report.site = "write_block.report"
                 /\ \A i \in 1..(n - 1) : emitted'[i].site = "write_block.missing"
                 /\ n = 1 + Cardinality(Absent)
                 /\ \A name \in ExpectedParts :
                        IF name \in Absent
                        THEN /\ Cardinality(MissingRecords(emitted', name)) = 1
                             /\ ~InReport(name)
                        ELSE /\ MissingRecords(emitted', name) = {}
                             /\ get_config_type = "BO" => InReport(name)]_vars

\* a BO block holding the state but neither targets nor GP parameters was
\* flushed: two records for the missing parts, then the report
C14_Witness ==
    /\ result.op = "write_block"
    /\ result.outcome = "ok"
    /\ Len(emitted) = 3
    /\ MissingRecords(emitted, "targets") = {1}
    /\ MissingRecords(emitted, "params") = {2}
    /\ emitted[3].fields = <<"header", "final_config", "state">>

\* C15: a write_block that succeeds logs exactly one report, leaves no
\* block open and no block fields, and leaves the registry as it was, so
\* that start_get_config of either kind succeeds next and the next report
\* starts from no field.
C15_FlushClosesTheBlock ==
    [][(result'.op = "write_block" /\ result'.outcome = "ok")
       => /\ Cardinality({i \in 1..Len(emitted') :
                            emitted'[i].site = "write_block.report"}) = 1
          /\ get_config_type' = None
          /\ block_info' = EmptyDict
          /\ RegistryUnchanged
          /\ \A k \in {"random", "BO"} :
                 LET next == start_get_config(get_config_type', block_info',
                                              config_counter'["R1"], k)
                 IN  /\ next.outcome = "ok"
                     /\ next.type = k
                     /\ next.info = EmptyDict]_vars

\* the second block, a BO block with an extra text, was flushed
C15_Witness ==
    /\ result.op = "write_block"
    /\ result.outcome = "ok"
    /\ config_counter["R1"] = 2
    /\ get_config_type = None
    /\ emitted # <<>>
    /\ LET fields == emitted[Len(emitted)].fields
       IN  fields[Len(fields)] = "extra"

\* C16: in the report of a block in which set_final_config succeeded, the
\* ID of the header, which is the counter of the registry less one when
\* write_block is called, is the ID the registry gave to the configuration
\* whose lines are the finalized configuration of the report, whatever calls
\* were made in the block.
C16_HeaderIsFinalId ==
    [][(result'.op = "write_block" /\ result'.outcome = "ok")
       => /\ final_id # Nothing
          /\ config_counter["R1"] - 1 = final_id[1]
          /\ emitted'[Len(emitted')].msg
                 = JoinStr(<<"[" \o ToString(final_id[1]) \o ": "
                                 \o get_config_type \o "]"
                                 \o (IF "num_evals" \in DOMAIN block_info
                                     THEN " (" \o ToString(block_info["num_evals"])
                                              \o " evaluations)"
                                     ELSE "")>>
                           \o [i \in 1..(Len(emitted'[Len(emitted')].fields) - 1) |->
                                 block_info[emitted'[Len(emitted')].fields[i + 1]]],
                           "\n")]_vars

\* C17: a set_final_config that fails because the configuration, not known
\* to the registry, has a resource value leaves the counter and table of
\* the registry and the block fields as they were, so that set_final_config
\* of the configuration without its resource value succeeds next with the
\* ID that was next before the failed call.
C17_FailedFinalizeHasNoEffect ==
    [][(/\ result'.op = "set_final_config"
        /\ get_config_type # None
        /\ HasName(result'.config, configspace_ext["R1"])
        /\ KeyOf("R1", result'.config) \notin DOMAIN Table("R1"))
       => /\ result'.outcome = "AssertionError"
          /\ RegistryUnchanged
          /\ BlockUnchanged
          /\ LET base == remove_resource(result'.config, configspace_ext["R1"])
                 again == set_final_config(get_config_type', block_info',
                                           config_counter'["R1"],
                                           heap'[config_id_dict'["R1"]],
                                           configspace_ext'["R1"], base)
             IN  /\ again.outcome = "ok"
                 /\ again.table[KeyOf("R1", base)] = config_counter["R1"]]_vars

\* C18: whenever no block is open the DebugLogPrinter holds no block field,
\* so that a report has only what was set between the start_get_config of
\* its block and its write_block; a text passed to append_extra while no
\* block is open is in no later report.
C18_NoFieldsWhileIdle ==
    get_config_type = None => block_info = EmptyDict

\* C19: a state returned by get_mutable_state keeps the counter and the
\* table the registry had when it was returned, whatever is inserted
\* afterwards into that registry or into one restored from the state, so
\* that restoring it later gives the counter and table of that time.
C19_StateIsPointInTime ==
    \A i \in 1..Len(snaps) : heap[snaps[i].config_id] = snap_table[i]

(***************************************************************************)
(* Properties of load                                                      *)
(***************************************************************************)
\* the object the values and globals of a pickle stand for
ObjectOf(content) ==
    [i \in 1..Len(content) |->
        IF content[i].kind = "global"
        THEN content[i].module \o "." \o content[i].name
        ELSE content[i].name]

\* every global of the pickle is one of safe_builtins
Allowed(content) ==
    \A i \in 1..Len(content) :
        content[i].kind = "global"
        => content[i].module = "builtins" /\ content[i].name \in safe_builtins

\* C20: load of a local path, which neither ends in .pointer nor is an S3
\* URL, with no format given, returns the object pickled in the file when
\* every global of the pickle is in the allow-list, and fails with an
\* unpickling error, returning no object, when one is not.
C20_LocalLoadReturnsObject ==
    (/\ loaded.outcome # "none"
     /\ loaded.format = None
     /\ ~EndsWithPointer(loaded.path)
     /\ ~is_s3_url(loaded.path)
     /\ loaded.content # <<>>)
    => IF Allowed(loaded.content)
       THEN /\ loaded.outcome = "ok"
            /\ loaded.value = Some(ObjectOf(loaded.content))
       ELSE /\ loaded.outcome = "UnpicklingError"
            /\ loaded.value = Nothing

====
